---- MODULE Spec2Model ----
(***************************************************************************)
(* unset_preload.so: a shared object whose constructor removes LD_PRELOAD  *)
(* from the environment of the process it is preloaded into                *)
(* (scripts/unset_preload.c).                                              *)
(*                                                                         *)
(* The model holds a table of processes.  A process is started with a copy *)
(* of an environment block, the dynamic linker maps the objects named in   *)
(* LD_PRELOAD, runs their initializers (among them unset_preload()), and   *)
(* hands over to main, which spawns children with system()/popen().        *)
(* Strings are sequences of one-character strings, so that the environment *)
(* block is what libc sees: a sequence of "NAME=value" strings.            *)
(***************************************************************************)
EXTENDS Integers, Sequences, FiniteSets, TLC

\* ------------------------------------------------------------------ bounds
MaxProcs == 3
MaxEnvLen == 2
MaxScrubs == 3

Pids == 1..MaxProcs

\* --------------------------------------------------------------- literals
\* A neighbouring name, as a slip of the literal would give.
TARGET_32 == <<"L","D","_","P","R","E","L","O","A","D","_","3","2">>

\* unsetenv("LD_PRELOAD"): the name the constructor removes.
TARGET == <<"L","D","_","P","R","E","L","O","A","D">>

\* The variable the dynamic linker reads its preload list from.
LD_PRELOAD == <<"L","D","_","P","R","E","L","O","A","D">>

\* Usage: LD_PRELOAD="/usr/lib/gl4es/libGL.so.1 /usr/lib/unset_preload.so"
GL4ES_SO ==
    <<"/","u","s","r","/","l","i","b","/","g","l","4","e","s","/",
      "l","i","b","G","L",".","s","o",".","1">>

UNSET_SO ==
    <<"/","u","s","r","/","l","i","b","/",
      "u","n","s","e","t","_","p","r","e","l","o","a","d",".","s","o">>

\* getenv() result for a name that is not in the environment (NULL).
NULL == <<"(null)">>

\* Entries an inherited environment block is built from.
E_USAGE == LD_PRELOAD \o <<"=">> \o GL4ES_SO \o <<" ">> \o UNSET_SO

E_SWAPPED == LD_PRELOAD \o <<"=">> \o UNSET_SO \o <<":">> \o GL4ES_SO

E_GLONLY == LD_PRELOAD \o <<"=">> \o GL4ES_SO

E_OTHER == <<"O","T","H","E","R","=","x">>

E_SOLARIS == LD_PRELOAD \o <<"_","3","2","=","x">>

InitEntries == {E_USAGE, E_SWAPPED, E_GLONLY, E_OTHER, E_SOLARIS}

RECURSIVE SeqsUpTo(_, _)
SeqsUpTo(S, n) ==
    IF n = 0 THEN {<<>>}
    ELSE LET shorter == SeqsUpTo(S, n - 1)
         IN  shorter \cup {Append(s, e) : s \in shorter, e \in S}

InitEnvs == SeqsUpTo(InitEntries, MaxEnvLen)

\* ----------------------------------------------------- libc: environment
\* Index of the first occurrence of ch in s, 0 when there is none (strchr).
StrChr(s, ch) ==
    IF \E i \in 1..Len(s) : s[i] = ch
    THEN CHOOSE i \in 1..Len(s) : s[i] = ch /\ \A j \in 1..(i - 1) : s[j] # ch
    ELSE 0

\* strncmp(entry, name, len) == 0 && entry[len] == '='
EntryMatches(entry, name) ==
    /\ Len(entry) > Len(name)
    /\ SubSeq(entry, 1, Len(name)) = name
    /\ entry[Len(name) + 1] = "="

\* name == NULL || *name == '\0' || strchr(name, '=') != NULL  -> EINVAL
InvalidName(name) == Len(name) = 0 \/ StrChr(name, "=") # 0

\* Index of the first entry of that name in the block, 0 when there is none.
FirstIndex(env, name) ==
    IF \E i \in 1..Len(env) : EntryMatches(env[i], name)
    THEN CHOOSE k \in 1..Len(env) :
             /\ EntryMatches(env[k], name)
             /\ \A j \in 1..(k - 1) : ~EntryMatches(env[j], name)
    ELSE 0

\* getenv(name): the value of the first matching entry, or NULL.
Getenv(env, name) ==
    IF FirstIndex(env, name) = 0 THEN NULL
    ELSE SubSeq(env[FirstIndex(env, name)], Len(name) + 2,
                Len(env[FirstIndex(env, name)]))

\* An unsetenv() that stops at the first entry of that name.
Unsetenv_first(env, name) ==
    IF InvalidName(name)
    THEN [ret |-> -1, env |-> env, errno |-> "EINVAL"]
    ELSE [ret |-> 0,
          env |-> IF FirstIndex(env, name) = 0 THEN env
                  ELSE SubSeq(env, 1, FirstIndex(env, name) - 1)
                       \o SubSeq(env, FirstIndex(env, name) + 1, Len(env)),
          errno |-> "ENONE"]

\* An unsetenv() that reports a name it does not find as an error.
Unsetenv_strict(env, name) ==
    IF InvalidName(name) \/ Getenv(env, name) = NULL
    THEN [ret |-> -1, env |-> env, errno |-> "EINVAL"]
    ELSE [ret |-> 0,
          env |-> SelectSeq(env, LAMBDA e : ~EntryMatches(e, name)),
          errno |-> "ENONE"]

\* unsetenv(name): removes every entry of that name; fails with EINVAL, and
\* leaves the environment alone, when the name is empty or contains '='.
Unsetenv(env, name) ==
    IF InvalidName(name)
    THEN [ret |-> -1, env |-> env, errno |-> "EINVAL"]
    ELSE [ret |-> 0,
          env |-> SelectSeq(env, LAMBDA e : ~EntryMatches(e, name)),
          errno |-> "ENONE"]

\* setenv(name, value, 1): overwrites the first matching entry, else appends.
Setenv(env, name, value) ==
    LET entry == name \o <<"=">> \o value
    IN  IF FirstIndex(env, name) = 0 THEN Append(env, entry)
        ELSE [env EXCEPT ![FirstIndex(env, name)] = entry]

\* ------------------------------------------- dynamic linker: preload list
IsSeparator(ch) == ch = " " \/ ch = ":"

\* The preload list is split at spaces and colons; empty items are dropped.
RECURSIVE SplitList(_)
SplitList(v) ==
    IF Len(v) = 0 THEN <<>>
    ELSE IF IsSeparator(v[1]) THEN SplitList(Tail(v))
    ELSE LET stop == IF \E i \in 1..Len(v) : IsSeparator(v[i])
                     THEN CHOOSE i \in 1..Len(v) :
                              /\ IsSeparator(v[i])
                              /\ \A j \in 1..(i - 1) : ~IsSeparator(v[j])
                     ELSE Len(v) + 1
         IN  <<SubSeq(v, 1, stop - 1)>> \o SplitList(SubSeq(v, stop, Len(v)))

PreloadList(env) ==
    IF Getenv(env, LD_PRELOAD) = NULL THEN <<>>
    ELSE SplitList(Getenv(env, LD_PRELOAD))

Range(s) == {s[i] : i \in 1..Len(s)}

\* ------------------------------------------------------------------ state
VARIABLES
    phase,        \* pid -> "unused" | "start" | "main" | "wait" | "exited"
    parent,       \* pid -> pid of the spawning process, 0 for none
    environ,      \* pid -> the process's environment block
    env0,         \* pid -> the block the process was started with
    loaded,       \* pid -> objects mapped into the process
    inited,       \* pid -> objects whose initializers have run
    errno,        \* pid -> "ENONE" | "EINVAL"
    scrubs,       \* pid -> number of times unset_preload() has run
    readded,      \* pid -> the host program has set LD_PRELOAD again
    spawnReadded  \* pid -> readded of the parent when it spawned this process

vars == <<phase, parent, environ, env0, loaded, inited, errno, scrubs,
          readded, spawnReadded>>

\* The state of a process table in which `roots` maps the pids started from
\* outside to the environment each was started with.
Boot(roots) ==
    /\ phase = [p \in Pids |-> IF p \in DOMAIN roots THEN "start" ELSE "unused"]
    /\ parent = [p \in Pids |-> 0]
    /\ environ = [p \in Pids |-> IF p \in DOMAIN roots THEN roots[p] ELSE <<>>]
    /\ env0 = environ
    /\ loaded = [p \in Pids |-> {}]
    /\ inited = [p \in Pids |-> {}]
    /\ errno = [p \in Pids |-> "ENONE"]
    /\ scrubs = [p \in Pids |-> 0]
    /\ readded = [p \in Pids |-> FALSE]
    /\ spawnReadded = [p \in Pids |-> FALSE]

Init == \E e \in InitEnvs : Boot(1 :> e)

\* ---------------------------------------------------------- dynamic linker
AllMapped(p) == Range(PreloadList(env0[p])) \subseteq loaded[p]

\* The linker maps the next object of the preload list.
MapNext(p) ==
    /\ phase[p] = "start"
    /\ ~AllMapped(p)
    /\ LET list == PreloadList(env0[p])
           i == CHOOSE k \in 1..Len(list) :
                    /\ list[k] \notin loaded[p]
                    /\ \A j \in 1..(k - 1) : list[j] \in loaded[p]
       IN  loaded' = [loaded EXCEPT ![p] = @ \cup {list[i]}]
    /\ UNCHANGED <<phase, parent, environ, env0, inited, errno, scrubs,
                   readded, spawnReadded>>

\* The initializer of a preloaded object other than unset_preload.so.
OtherInit(p, m) ==
    /\ phase[p] = "start"
    /\ AllMapped(p)
    /\ m \in loaded[p] \ inited[p]
    /\ m # UNSET_SO
    /\ inited' = [inited EXCEPT ![p] = @ \cup {m}]
    /\ UNCHANGED <<phase, parent, environ, env0, loaded, errno, scrubs,
                   readded, spawnReadded>>

\* ------------------------------------------------------ unset_preload.c
\* A constructor whose body lost the call.
unset_preload_skip(p) ==
    /\ environ' = environ
    /\ errno' = errno
    /\ scrubs' = [scrubs EXCEPT ![p] = @ + 1]

\* A constructor that acts only on the preload list of the usage line.
unset_preload_exact(p) ==
    /\ environ' = [environ EXCEPT ![p] =
                      IF Getenv(@, TARGET) = GL4ES_SO \o <<" ">> \o UNSET_SO
                      THEN Unsetenv(@, TARGET).env ELSE @]
    /\ errno' = errno
    /\ scrubs' = [scrubs EXCEPT ![p] = @ + 1]

\* static void unset_preload(void) { unsetenv("LD_PRELOAD"); }
unset_preload(p) ==
    /\ environ' = [environ EXCEPT ![p] = Unsetenv(@, TARGET).env]
    /\ errno' = [errno EXCEPT ![p] =
                    IF Unsetenv(environ[p], TARGET).ret = 0
                    THEN @ ELSE Unsetenv(environ[p], TARGET).errno]
    /\ scrubs' = [scrubs EXCEPT ![p] = @ + 1]

\* An initializer run as soon as its own object is mapped.
RunConstructor_eager(p) ==
    /\ phase[p] = "start"
    /\ UNSET_SO \in loaded[p] \ inited[p]
    /\ scrubs[p] < MaxScrubs
    /\ unset_preload(p)
    /\ inited' = [inited EXCEPT ![p] = @ \cup {UNSET_SO}]
    /\ UNCHANGED <<phase, parent, env0, loaded, readded, spawnReadded>>

\* An initializer that unmaps the other preloaded objects.
RunConstructor_unmap(p) ==
    /\ phase[p] = "start"
    /\ AllMapped(p)
    /\ UNSET_SO \in loaded[p] \ inited[p]
    /\ scrubs[p] < MaxScrubs
    /\ unset_preload(p)
    /\ loaded' = [loaded EXCEPT ![p] = {UNSET_SO}]
    /\ inited' = [inited EXCEPT ![p] = {UNSET_SO}]
    /\ UNCHANGED <<phase, parent, env0, readded, spawnReadded>>

\* A hook that is not tied to initialization and runs again later.
RunConstructor_again(p) ==
    /\ phase[p] \in {"start", "main"}
    /\ AllMapped(p)
    /\ UNSET_SO \in loaded[p]
    /\ phase[p] = "start" => UNSET_SO \notin inited[p]
    /\ scrubs[p] < MaxScrubs
    /\ unset_preload(p)
    /\ inited' = [inited EXCEPT ![p] = @ \cup {UNSET_SO}]
    /\ UNCHANGED <<phase, parent, env0, loaded, readded, spawnReadded>>

\* __attribute__((constructor)): the linker calls unset_preload() once, as
\* the initializer of unset_preload.so, when every preload object is mapped.
RunConstructor(p) ==
    /\ phase[p] = "start"
    /\ AllMapped(p)
    /\ UNSET_SO \in loaded[p] \ inited[p]
    /\ scrubs[p] < MaxScrubs
    /\ unset_preload(p)
    /\ inited' = [inited EXCEPT ![p] = @ \cup {UNSET_SO}]
    /\ UNCHANGED <<phase, parent, env0, loaded, readded, spawnReadded>>

\* All initializers have run: control passes to the program's main.
EnterMain(p) ==
    /\ phase[p] = "start"
    /\ AllMapped(p)
    /\ inited[p] = loaded[p]
    /\ phase' = [phase EXCEPT ![p] = "main"]
    /\ UNCHANGED <<parent, environ, env0, loaded, inited, errno, scrubs,
                   readded, spawnReadded>>

\* ------------------------------------------------------------ host program
\* system()/popen(): the child starts with a copy of the caller's environment
\* and the caller waits for the command to end.
Spawn(p, c) ==
    /\ phase[p] = "main"
    /\ phase[c] = "unused"
    /\ \A q \in Pids : q < c => phase[q] # "unused"
    /\ phase' = [phase EXCEPT ![c] = "start", ![p] = "wait"]
    /\ parent' = [parent EXCEPT ![c] = p]
    /\ environ' = [environ EXCEPT ![c] = environ[p]]
    /\ env0' = [env0 EXCEPT ![c] = environ[p]]
    /\ spawnReadded' = [spawnReadded EXCEPT ![c] = readded[p]]
    /\ UNCHANGED <<loaded, inited, errno, scrubs, readded>>

\* The process ends; a caller waiting for it carries on.
Exit(p) ==
    /\ phase[p] = "main"
    /\ phase' = [q \in Pids |->
                    IF q = p THEN "exited"
                    ELSE IF q = parent[p] THEN "main"
                    ELSE phase[q]]
    /\ UNCHANGED <<parent, environ, env0, loaded, inited, errno, scrubs,
                   readded, spawnReadded>>

\* Other code of the host program sets LD_PRELOAD again (once per process).
HostSetenv(p, v) ==
    /\ phase[p] = "main"
    /\ ~readded[p]
    /\ environ' = [environ EXCEPT ![p] = Setenv(@, LD_PRELOAD, v)]
    /\ readded' = [readded EXCEPT ![p] = TRUE]
    /\ UNCHANGED <<phase, parent, env0, loaded, inited, errno, scrubs,
                   spawnReadded>>

ReaddValues == {GL4ES_SO, GL4ES_SO \o <<" ">> \o UNSET_SO}

\* The removal operation called directly, any number of times.
Invoke(p) ==
    /\ phase[p] = "start"
    /\ scrubs[p] < MaxScrubs
    /\ unset_preload(p)
    /\ UNCHANGED <<phase, parent, env0, loaded, inited, readded, spawnReadded>>

Next ==
    \/ \E p \in Pids : MapNext(p)
    \/ \E p \in Pids : \E m \in loaded[p] : OtherInit(p, m)
    \/ \E p \in Pids : RunConstructor(p)
    \/ \E p \in Pids : EnterMain(p)
    \/ \E p \in Pids : \E c \in Pids : Spawn(p, c)
    \/ \E p \in Pids : Exit(p)

Spec == Init /\ [][Next]_vars

\* The program together with host code that re-adds the variable.
NextReadd ==
    \/ Next
    \/ \E p \in Pids : \E v \in ReaddValues : HostSetenv(p, v)

SpecReadd == Init /\ [][NextReadd]_vars

\* The removal operation on its own, applied repeatedly to one environment.
NextOp == \E p \in Pids : Invoke(p)

SpecOp == Init /\ [][NextOp]_vars

\* Two environments are the same up to the order of each preload list.
PreloadPermuted(e1, e2) ==
    /\ Len(e1) = Len(e2)
    /\ \A i \in 1..Len(e1) :
          IF EntryMatches(e1[i], LD_PRELOAD)
          THEN /\ EntryMatches(e2[i], LD_PRELOAD)
               /\ LET l1 == SplitList(SubSeq(e1[i], Len(LD_PRELOAD) + 2, Len(e1[i])))
                      l2 == SplitList(SubSeq(e2[i], Len(LD_PRELOAD) + 2, Len(e2[i])))
                  IN  /\ Len(l1) = Len(l2)
                      /\ \A m \in Range(l1) \cup Range(l2) :
                            Cardinality({k \in 1..Len(l1) : l1[k] = m})
                              = Cardinality({k \in 1..Len(l2) : l2[k] = m})
          ELSE e2[i] = e1[i]

\* Two processes started side by side from environments that differ only in
\* the order of the preload list.
InitPair ==
    \E e1 \in InitEnvs : \E e2 \in InitEnvs :
        /\ PreloadPermuted(e1, e2)
        /\ Boot(1 :> e1 @@ 2 :> e2)

SpecPair == InitPair /\ [][Next]_vars

TypeOK ==
    /\ \A p \in Pids : phase[p] \in {"unused", "start", "main", "wait", "exited"}
    /\ \A p \in Pids : scrubs[p] \in 0..MaxScrubs

\* ------------------------------------------------------------ properties
\* The name of an environment entry: the text before its first '='.
EntryName(e) == SubSeq(e, 1, StrChr(e, "=") - 1)

\* The entries of a block that are not LD_PRELOAD entries, in order.
OtherEntries(env) == SelectSeq(env, LAMBDA e : EntryName(e) # LD_PRELOAD)

\* The step runs unset_preload() in process p.
ScrubStep(p) == scrubs'[p] # scrubs[p]

\* p was started by q, directly or through further processes, and no process
\* on the way from q down to p's parent had set LD_PRELOAD again when it
\* spawned the next one.
RECURSIVE CleanPath(_, _)
CleanPath(p, q) ==
    /\ parent[p] # 0
    /\ ~spawnReadded[p]
    /\ parent[p] = q \/ CleanPath(parent[p], q)

\* C1 (effectiveness): when unset_preload() runs in a process whose
\* environment holds LD_PRELOAD with a non-empty value, a lookup of LD_PRELOAD
\* in the state the constructor leaves behind reports it as not present.
C1_Effectiveness ==
    [][\A p \in Pids :
         (ScrubStep(p) /\ Getenv(environ[p], LD_PRELOAD) \notin {NULL, <<>>})
            => Getenv(environ'[p], LD_PRELOAD) = NULL]_vars

C1_Witness ==
    \E p \in Pids :
        /\ scrubs[p] = 1
        /\ Cardinality({i \in 1..Len(env0[p]) :
                           EntryMatches(env0[p][i], LD_PRELOAD)}) >= 2
        /\ Getenv(env0[p], LD_PRELOAD) \notin {NULL, <<>>}
        /\ Getenv(environ[p], LD_PRELOAD) = NULL

\* C2 (non-inheritance): a child spawned by a process that was started with
\* LD_PRELOAD set and had unset_preload.so preloaded starts without
\* LD_PRELOAD, and with every other variable of the parent, value unchanged.
C2_NonInheritance ==
    \A c \in Pids :
        (/\ parent[c] # 0
         /\ Getenv(env0[parent[c]], LD_PRELOAD) # NULL
         /\ UNSET_SO \in loaded[parent[c]])
        => /\ Getenv(env0[c], LD_PRELOAD) = NULL
           /\ \A e \in Range(env0[parent[c]]) :
                 EntryName(e) # LD_PRELOAD
                 => Getenv(env0[c], EntryName(e))
                      = Getenv(env0[parent[c]], EntryName(e))

C2_Witness ==
    \E c \in Pids :
        /\ parent[c] # 0
        /\ env0[parent[c]] = <<E_USAGE, E_OTHER>>
        /\ env0[c] = <<E_OTHER>>
        /\ phase[c] = "main"

\* C3 (non-interference): a run of unset_preload() leaves every variable
\* other than LD_PRELOAD as it was, present or not and with the same value,
\* and changes no entry of the block that is not an LD_PRELOAD entry.
C3_NonInterference ==
    [][\A p \in Pids :
         ScrubStep(p)
         => /\ OtherEntries(environ'[p]) = OtherEntries(environ[p])
            /\ Range(environ'[p]) \subseteq Range(environ[p])
            /\ \A n \in {EntryName(e) : e \in InitEntries} :
                  n # LD_PRELOAD
                  => Getenv(environ'[p], n) = Getenv(environ[p], n)]_vars

C3_Witness ==
    \E p \in Pids :
        /\ scrubs[p] = 1
        /\ env0[p] = <<E_SOLARIS, E_USAGE>>
        /\ environ[p] = <<E_SOLARIS>>

\* C4 (idempotence): the removal applied to an environment without
\* LD_PRELOAD leaves the environment as it is and reports no error; so a
\* second application changes nothing the first one left.
C4_Idempotence ==
    [][\A p \in Pids :
         (ScrubStep(p) /\ (Getenv(environ[p], LD_PRELOAD) = NULL \/ scrubs[p] >= 1))
            => /\ environ'[p] = environ[p]
               /\ errno'[p] = "ENONE"]_vars

C4_Witness ==
    \E p \in Pids :
        /\ scrubs[p] = 2
        /\ Getenv(env0[p], LD_PRELOAD) # NULL
        /\ environ[p] = <<E_OTHER>>

\* C5 as stated: unset_preload() runs when every object of the preload list
\* is mapped and every other one of them has had its initializer run, and
\* before main; no child of main is started with LD_PRELOAD.
C5_Original ==
    [][\A p \in Pids :
         /\ ScrubStep(p)
            => /\ phase[p] = "start" /\ phase'[p] = "start"
               /\ AllMapped(p)
               /\ (loaded[p] \ {UNSET_SO}) \subseteq inited[p]
         /\ (phase[p] = "start" /\ phase'[p] = "main" /\ UNSET_SO \in loaded[p])
            => scrubs[p] = 1
         /\ (phase[p] = "unused" /\ phase'[p] = "start"
               /\ UNSET_SO \in loaded[parent'[p]])
            => Getenv(env0'[p], LD_PRELOAD) = NULL]_vars

\* C5 (trigger ordering), amended: unset_preload() runs when every object of
\* the preload list is mapped, before or after the initializers of the other
\* preloaded objects, and before main; no child of main is started with
\* LD_PRELOAD.
C5_TriggerOrdering ==
    [][\A p \in Pids :
         /\ ScrubStep(p)
            => /\ phase[p] = "start" /\ phase'[p] = "start"
               /\ AllMapped(p)
         /\ (phase[p] = "start" /\ phase'[p] = "main" /\ UNSET_SO \in loaded[p])
            => scrubs[p] = 1
         /\ (phase[p] = "unused" /\ phase'[p] = "start"
               /\ UNSET_SO \in loaded[parent'[p]])
            => Getenv(env0'[p], LD_PRELOAD) = NULL]_vars

C5_Witness ==
    \E p \in Pids : \E c \in Pids :
        /\ parent[c] = p
        /\ PreloadList(env0[p]) = <<UNSET_SO, GL4ES_SO>>
        /\ loaded[p] = {UNSET_SO, GL4ES_SO}
        /\ scrubs[p] = 1
        /\ phase[c] = "main"

\* C6 (order independence): two processes started from environments that
\* differ only in the order of a preload list naming both libGL and
\* unset_preload.so reach main with the same environment, without
\* LD_PRELOAD, and give their children the same environment.
BothListed(p) == {GL4ES_SO, UNSET_SO} \subseteq Range(PreloadList(env0[p]))

C6_OrderIndependence ==
    \A p \in Pids : \A q \in Pids :
        (/\ parent[p] = 0 /\ parent[q] = 0
         /\ phase[p] \in {"main", "wait", "exited"}
         /\ phase[q] \in {"main", "wait", "exited"}
         /\ BothListed(p))
        => /\ environ[p] = environ[q]
           /\ Getenv(environ[p], LD_PRELOAD) = NULL
           /\ \A c \in Pids :
                 parent[c] = p
                 => /\ env0[c] = environ[q]
                    /\ Getenv(env0[c], LD_PRELOAD) = NULL
                    /\ \A d \in Pids : parent[d] = q => env0[d] = env0[c]

C6_Witness ==
    \E c \in Pids :
        /\ parent[c] = 1
        /\ phase[c] = "main"
        /\ phase[2] = "main"
        /\ PreloadList(env0[1]) = <<GL4ES_SO, UNSET_SO>>
        /\ PreloadList(env0[2]) = <<UNSET_SO, GL4ES_SO>>
        /\ Len(env0[c]) > 0

\* C8 (the injected library stays loaded): no step unmaps an object, and
\* the step that runs unset_preload() leaves the set of mapped objects as it
\* was; from then on every preloaded object is still mapped.
C8_StaysLoaded ==
    [][\A p \in Pids :
         /\ loaded[p] \subseteq loaded'[p]
         /\ ScrubStep(p) => loaded'[p] = loaded[p]
         /\ scrubs[p] >= 1 => loaded'[p] = Range(PreloadList(env0[p]))]_vars

C8_Witness ==
    \E p \in Pids :
        /\ phase[p] = "exited"
        /\ scrubs[p] = 1
        /\ GL4ES_SO \in loaded[p]
        /\ Getenv(environ[p], LD_PRELOAD) = NULL

\* C9 (run-once and stability): unset_preload() runs once per process that
\* has it preloaded, during initialization; afterwards LD_PRELOAD appears
\* again only by a setenv() of the host program, and once it has been set
\* again it stays set.
C9_RunOnceStable ==
    [][\A p \in Pids :
         /\ ScrubStep(p) => (scrubs[p] = 0 /\ phase[p] = "start")
         /\ (phase'[p] = "main" /\ UNSET_SO \in loaded[p]) => scrubs'[p] = 1
         /\ (/\ scrubs[p] >= 1
             /\ Getenv(environ[p], LD_PRELOAD) = NULL
             /\ Getenv(environ'[p], LD_PRELOAD) # NULL)
            => (~readded[p] /\ readded'[p])
         /\ (scrubs[p] >= 1 /\ Getenv(environ[p], LD_PRELOAD) # NULL)
            => Getenv(environ'[p], LD_PRELOAD) # NULL]_vars

C9_Witness ==
    \E p \in Pids :
        /\ scrubs[p] = 1
        /\ readded[p]
        /\ Getenv(environ[p], LD_PRELOAD) # NULL
        /\ phase[p] = "exited"

\* C10 (transitive non-injection): a child spawned by a process in which
\* unset_preload() has run, before that process set LD_PRELOAD again, starts
\* without LD_PRELOAD, has no object preloaded and never runs
\* unset_preload(); so does every descendant of the child reached without a
\* process on the way setting LD_PRELOAD again.
C10_Transitive ==
    \A c \in Pids :
        (/\ parent[c] # 0
         /\ scrubs[parent[c]] >= 1
         /\ ~spawnReadded[c])
        => /\ Getenv(env0[c], LD_PRELOAD) = NULL
           /\ loaded[c] = {}
           /\ scrubs[c] = 0
           /\ \A g \in Pids :
                 CleanPath(g, c)
                 => /\ Getenv(env0[g], LD_PRELOAD) = NULL
                    /\ loaded[g] = {}
                    /\ scrubs[g] = 0

C10_Witness ==
    \E c \in Pids : \E g \in Pids :
        /\ parent[g] = c
        /\ parent[c] # 0
        /\ scrubs[parent[c]] = 1
        /\ ~readded[parent[c]]
        /\ Getenv(env0[parent[c]], LD_PRELOAD) # NULL
        /\ Len(env0[g]) > 0
        /\ phase[g] = "main"

====
